---- MODULE Spec2Model ----
(***************************************************************************)
(* Value marshalling between host values and the parameter slots / result  *)
(* columns of one prepared statement (src/types.rs: ToSql and FromSql).    *)
(*                                                                         *)
(* Host byte strings are sequences of byte values.  Doubles are counted in *)
(* halves (3 stands for 1.5).  A host value is a record                    *)
(*   [ty, depth, some, n, s]                                               *)
(* where ty names the innermost type, depth counts the Option layers of    *)
(* the static type and some counts the Some layers present: some = depth   *)
(* means the payload (n or s) is present, some < depth means               *)
(* Some^some(None).                                                        *)
(***************************************************************************)
EXTENDS Integers, Sequences, FiniteSets, TLC

VARIABLES phase, params, row, bound, srcBuf, last

vars == <<phase, params, row, bound, srcBuf, last>>

\* Longest host text / byte sequence drawn as an input.
MaxLen == 2
\* Deepest nesting of Option drawn as an input or as a decode target.
MaxNest == 2
\* Columns of the test table foo (b BLOB, t TEXT); one parameter per column.
NCols == 2

\* NUL, 'a', and the two bytes of U+00E9 (0xC3 0xA9).
Bytes == {0, 97, 195, 169}
IntSamples == {0, 7}
DoubleSamples == {0, 3}

ByteSeqs(k) == UNION {[1..m -> Bytes] : m \in 0..k}

Take(s, k) == IF k <= 0 THEN <<>> ELSE SubSeq(s, 1, IF k < Len(s) THEN k ELSE Len(s))

HasNul(s) == \E k \in 1..Len(s) : s[k] = 0

\* Bytes before the first NUL of a NUL-terminated buffer (C strlen).
Strlen(buf) == IF HasNul(buf)
               THEN (CHOOSE k \in 1..Len(buf) : buf[k] = 0 /\ \A j \in 1..(k-1) : buf[j] # 0) - 1
               ELSE Len(buf)

Cont(b) == b \in 128..191

\* str::from_utf8's well-formedness test.
RECURSIVE IsUtf8(_)
IsUtf8(s) ==
  IF s = <<>> THEN TRUE
  ELSE LET b == s[1] IN
    IF b < 128 THEN IsUtf8(Tail(s))
    ELSE IF b \in 194..223
      THEN Len(s) >= 2 /\ Cont(s[2]) /\ IsUtf8(SubSeq(s, 3, Len(s)))
    ELSE IF b \in 224..239
      THEN /\ Len(s) >= 3 /\ Cont(s[2]) /\ Cont(s[3])
           /\ (b = 224 => s[2] >= 160)
           /\ (b = 237 => s[2] <= 159)
           /\ IsUtf8(SubSeq(s, 4, Len(s)))
    ELSE IF b \in 240..244
      THEN /\ Len(s) >= 4 /\ Cont(s[2]) /\ Cont(s[3]) /\ Cont(s[4])
           /\ (b = 240 => s[2] >= 144)
           /\ (b = 244 => s[2] <= 143)
           /\ IsUtf8(SubSeq(s, 5, Len(s)))
    ELSE FALSE

\* Host strings: valid UTF-8, NUL (U+0000) allowed anywhere.
Strs == {s \in ByteSeqs(MaxLen) : IsUtf8(s)}
Blobs == ByteSeqs(MaxLen)

(***************************************************************************)
(* Host values                                                             *)
(***************************************************************************)
HV(ty, depth, some, n, s) == [s |-> s, ty |-> ty, depth |-> depth, some |-> some, n |-> n]

NoVal == HV("none", 0, 0, 0, <<>>)

\* Inputs are drawn as tuples <<ty, depth, some, n, s>>.
TV(ty, depth, some, n, s) == <<ty, depth, some, n, s>>
ToHV(t) == HV(t[1], t[2], t[3], t[4], t[5])

BaseValues ==
  {TV("c_int", 0, 0, n, <<>>) : n \in IntSamples}
    \cup {TV("i64", 0, 0, n, <<>>) : n \in IntSamples}
    \cup {TV("c_double", 0, 0, n, <<>>) : n \in DoubleSamples}
    \cup {TV("str", 0, 0, 0, s) : s \in Strs}
    \cup {TV("String", 0, 0, 0, s) : s \in Strs}
    \cup {TV("slice", 0, 0, 0, s) : s \in Blobs}
    \cup {TV("Vec", 0, 0, 0, s) : s \in Blobs}

BindTypes == {"c_int", "i64", "c_double", "str", "String", "slice", "Vec"}

\* Values wrapped more than once.
NestSamples ==
  {TV("c_int", 0, 0, 0, <<>>), TV("c_double", 0, 0, 3, <<>>), TV("str", 0, 0, 0, <<>>),
   TV("String", 0, 0, 0, <<97>>), TV("Vec", 0, 0, 0, <<>>), TV("slice", 0, 0, 0, <<97>>)}

\* Some(v) for every base value v, Some^d(v) for the samples, Some^k(None).
SomeValues ==
  {TV(v[1], 1, 1, v[4], v[5]) : v \in BaseValues}
    \cup {TV(v[1], d, d, v[4], v[5]) : v \in NestSamples, d \in 2..MaxNest}
NoneValues ==
  {v \in {TV(t, d, k, 0, <<>>) : t \in BindTypes, d \in 1..MaxNest, k \in 0..(MaxNest - 1)} :
     v[3] < v[2]}
OptionValues == SomeValues \cup NoneValues

HostValues == BaseValues \cup OptionValues

Present(v) == v.some = v.depth

\* One value of every bindable type, for the two-slot specification.
FrameValues ==
  {TV("c_int", 0, 0, 0, <<>>), TV("c_int", 0, 0, 7, <<>>), TV("i64", 0, 0, 7, <<>>),
   TV("c_double", 0, 0, 3, <<>>), TV("str", 0, 0, 0, <<97>>), TV("String", 0, 0, 0, <<>>),
   TV("slice", 0, 0, 0, <<97>>), TV("Vec", 0, 0, 0, <<>>),
   TV("c_int", 1, 0, 0, <<>>), TV("c_int", 1, 1, 0, <<>>), TV("Vec", 1, 0, 0, <<>>),
   TV("str", 0, 0, 0, <<0>>)}

(***************************************************************************)
(* The engine: cells, status codes, bind primitives                        *)
(***************************************************************************)
SQLITE_OK == 0
SQLITE_NOMEM == 7
SQLITE_RANGE == 25
SQLITE_INTEGER == 1
SQLITE_FLOAT == 2
SQLITE_TEXT == 3
SQLITE_BLOB == 4
SQLITE_NULL == 5

\* alias: the engine kept the caller's pointer instead of copying the bytes.
Cell(ty, n, s, alias) == [s |-> s, ty |-> ty, n |-> n, alias |-> alias]
NullCell == Cell(SQLITE_NULL, 0, <<>>, FALSE)

Ptr(mem) == [null |-> FALSE, mem |-> mem]
NullPtr == [null |-> TRUE, mem |-> <<>>]

Slots == 1..NCols

\* vdbeUnbind + store: an index outside 1..N changes nothing; a failed copy
\* leaves the slot released (NULL).
EngineBind(P, i, cell, oom) ==
  IF i \notin Slots THEN [rc |-> SQLITE_RANGE, params |-> P]
  ELSE IF oom THEN [rc |-> SQLITE_NOMEM, params |-> [P EXCEPT ![i] = NullCell]]
  ELSE [rc |-> SQLITE_OK, params |-> [P EXCEPT ![i] = cell]]

sqlite3_bind_int(P, i, v) == EngineBind(P, i, Cell(SQLITE_INTEGER, v, <<>>, FALSE), FALSE)
sqlite3_bind_int64(P, i, v) == EngineBind(P, i, Cell(SQLITE_INTEGER, v, <<>>, FALSE), FALSE)
sqlite3_bind_double(P, i, v) == EngineBind(P, i, Cell(SQLITE_FLOAT, v, <<>>, FALSE), FALSE)
sqlite3_bind_null(P, i) == EngineBind(P, i, NullCell, FALSE)

\* n < 0: the text runs to the first NUL.  SQLITE_TRANSIENT: copy now (the
\* copy may fail); SQLITE_STATIC: keep the pointer.
sqlite3_bind_text(P, i, ptr, n, destructor, oom) ==
  IF ptr.null THEN EngineBind(P, i, NullCell, FALSE)
  ELSE LET len == IF n < 0 THEN Strlen(ptr.mem) ELSE n
           copy == destructor = "SQLITE_TRANSIENT"
       IN EngineBind(P, i, Cell(SQLITE_TEXT, 0, Take(ptr.mem, len), ~copy), oom /\ copy)

sqlite3_bind_blob(P, i, ptr, n, destructor, oom) ==
  IF ptr.null THEN EngineBind(P, i, NullCell, FALSE)
  ELSE LET copy == destructor = "SQLITE_TRANSIENT"
       IN EngineBind(P, i, Cell(SQLITE_BLOB, 0, Take(ptr.mem, n), ~copy), oom /\ copy)

(***************************************************************************)
(* Encoders: impl ToSql                                                    *)
(***************************************************************************)
CallRec(f, col, len, destructor, ret) ==
  [destructor |-> destructor, len |-> len, f |-> f, col |-> col, ret |-> ret]

Returned(rc, P, calls) == [status |-> "returned", rc |-> rc, params |-> P, calls |-> calls]
Panicked(P, calls) == [status |-> "panicked", rc |-> 0, params |-> P, calls |-> calls]

\* `as c_int` of a length: the identity up to 2^31 - 1, wrapping above.
AsCInt(n) == IF n <= 2147483647 THEN n ELSE ((n - 2147483647) - 2147483647) - 2

\* Slice pointers are never null, also for an empty slice.
as_ptr(self) == Ptr(self)

\* Fault: the value lands in the slot after the one asked for.
bind_c_int_NextSlot(self, P, col) ==
  LET r == sqlite3_bind_int(P, col + 1, self)
  IN Returned(r.rc, r.params, <<CallRec("sqlite3_bind_int", col, 0, "", r.rc)>>)

bind_c_int(self, P, col) ==
  LET r == sqlite3_bind_int(P, col, self)
  IN Returned(r.rc, r.params, <<CallRec("sqlite3_bind_int", col, 0, "", r.rc)>>)

bind_i64(self, P, col) ==
  LET r == sqlite3_bind_int64(P, col, self)
  IN Returned(r.rc, r.params, <<CallRec("sqlite3_bind_int64", col, 0, "", r.rc)>>)

bind_c_double(self, P, col) ==
  LET r == sqlite3_bind_double(P, col, self)
  IN Returned(r.rc, r.params, <<CallRec("sqlite3_bind_double", col, 0, "", r.rc)>>)

\* with_c_str: the task fails on an interior NUL, before the closure runs;
\* otherwise the closure gets a NUL-terminated copy of the bytes.
bind_str(self, P, col, oom) ==
  IF HasNul(self) THEN Panicked(P, <<>>)
  ELSE LET c_str == Ptr(self \o <<0>>)
           r == sqlite3_bind_text(P, col, c_str, -1, "SQLITE_TRANSIENT", oom)
       IN Returned(r.rc, r.params,
                   <<CallRec("sqlite3_bind_text", col, -1, "SQLITE_TRANSIENT", r.rc)>>)

\* Fault: the owned String's encoder drops the engine's status.
bind_String_DropStatus(self, P, col, oom) ==
  LET r == bind_str(self, P, col, oom)
  IN IF r.status = "panicked" THEN r ELSE Returned(SQLITE_OK, r.params, r.calls)

bind_String(self, P, col, oom) == bind_str(self, P, col, oom)

\* Fault: the length passed is one short.
bind_slice_ShortLen(self, P, col, oom) ==
  LET n == IF Len(self) > 0 THEN AsCInt(Len(self)) - 1 ELSE 0
      r == sqlite3_bind_blob(P, col, as_ptr(self), n, "SQLITE_TRANSIENT", oom)
  IN Returned(r.rc, r.params, <<CallRec("sqlite3_bind_blob", col, n, "SQLITE_TRANSIENT", r.rc)>>)

\* Fault: the buffer is bound without the copy-now flag.
bind_slice_Static(self, P, col, oom) ==
  LET n == AsCInt(Len(self))
      r == sqlite3_bind_blob(P, col, as_ptr(self), n, "SQLITE_STATIC", oom)
  IN Returned(r.rc, r.params, <<CallRec("sqlite3_bind_blob", col, n, "SQLITE_STATIC", r.rc)>>)

bind_slice(self, P, col, oom) ==
  LET n == AsCInt(Len(self))
      r == sqlite3_bind_blob(P, col, as_ptr(self), n, "SQLITE_TRANSIENT", oom)
  IN Returned(r.rc, r.params, <<CallRec("sqlite3_bind_blob", col, n, "SQLITE_TRANSIENT", r.rc)>>)

bind_Vec(self, P, col, oom) == bind_slice(self, P, col, oom)

bind_Null(P, col) ==
  LET r == sqlite3_bind_null(P, col)
  IN Returned(r.rc, r.params, <<CallRec("sqlite3_bind_null", col, 0, "", r.rc)>>)

bind_base(self, P, col, oom) ==
  CASE self.ty = "c_int" -> bind_c_int(self.n, P, col)
    [] self.ty = "i64" -> bind_i64(self.n, P, col)
    [] self.ty = "c_double" -> bind_c_double(self.n, P, col)
    [] self.ty = "str" -> bind_str(self.s, P, col, oom)
    [] self.ty = "String" -> bind_String(self.s, P, col, oom)
    [] self.ty = "slice" -> bind_slice(self.s, P, col, oom)
    [] self.ty = "Vec" -> bind_Vec(self.s, P, col, oom)
    [] OTHER -> bind_Null(P, col)

RECURSIVE bind_Option(_, _, _, _)
\* Fault: None is bound as the integer 0.
bind_Option_ZeroForNone(self, P, col, oom) ==
  IF self.some = 0
  THEN LET r == sqlite3_bind_int(P, col, 0)
       IN Returned(r.rc, r.params, <<CallRec("sqlite3_bind_int", col, 0, "", r.rc)>>)
  ELSE LET t == HV(self.ty, self.depth - 1, self.some - 1, self.n, self.s)
       IN IF t.depth = 0 THEN bind_base(t, P, col, oom) ELSE bind_Option(t, P, col, oom)

\* match *self { None => bind_null, Some(ref t) => t.bind_parameter }
bind_Option(self, P, col, oom) ==
  IF self.some = 0
  THEN LET r == sqlite3_bind_null(P, col)
       IN Returned(r.rc, r.params, <<CallRec("sqlite3_bind_null", col, 0, "", r.rc)>>)
  ELSE LET t == HV(self.ty, self.depth - 1, self.some - 1, self.n, self.s)
       IN IF t.depth = 0 THEN bind_base(t, P, col, oom) ELSE bind_Option(t, P, col, oom)

bind_parameter(self, P, col, oom) ==
  IF self.depth > 0 THEN bind_Option(self, P, col, oom) ELSE bind_base(self, P, col, oom)

(***************************************************************************)
(* The engine: column accessors                                            *)
(***************************************************************************)
RECURSIVE Digits(_)
Digits(n) == IF n < 10 THEN <<48 + n>> ELSE Append(Digits(n \div 10), 48 + (n % 10))

IntToText(n) == IF n < 0 THEN <<45>> \o Digits(-n) ELSE Digits(n)
DoubleToText(h) == Digits(h \div 2) \o <<46>> \o (IF h % 2 = 1 THEN <<53>> ELSE <<48>>)

\* Value of the leading run of decimal digits (0 when there is none).
RECURSIVE DigitsValue(_, _)
DigitsValue(s, acc) ==
  IF s = <<>> \/ s[1] \notin 48..57 THEN acc
  ELSE DigitsValue(Tail(s), acc * 10 + (s[1] - 48))

NumPrefix(s) ==
  IF s # <<>> /\ s[1] = 45 THEN -DigitsValue(Tail(s), 0) ELSE DigitsValue(s, 0)

\* The bytes the engine hands out when a cell is read as text or blob.
TextOf(c) ==
  CASE c.ty = SQLITE_INTEGER -> IntToText(c.n)
    [] c.ty = SQLITE_FLOAT -> DoubleToText(c.n)
    [] c.ty = SQLITE_NULL -> <<>>
    [] OTHER -> c.s

sqlite3_column_int(c) ==
  CASE c.ty = SQLITE_INTEGER -> c.n
    [] c.ty = SQLITE_FLOAT -> c.n \div 2
    [] c.ty = SQLITE_NULL -> 0
    [] OTHER -> NumPrefix(c.s)

sqlite3_column_int64(c) == sqlite3_column_int(c)

sqlite3_column_double(c) ==
  CASE c.ty = SQLITE_INTEGER -> 2 * c.n
    [] c.ty = SQLITE_FLOAT -> c.n
    [] c.ty = SQLITE_NULL -> 0
    [] OTHER -> 2 * NumPrefix(c.s)

\* NUL-terminated; a null pointer only for SQL NULL.
sqlite3_column_text(c) == IF c.ty = SQLITE_NULL THEN NullPtr ELSE Ptr(TextOf(c) \o <<0>>)

\* A null pointer for SQL NULL and for a zero-length value.
sqlite3_column_blob(c) == IF TextOf(c) = <<>> THEN NullPtr ELSE Ptr(TextOf(c))

\* fault: the engine breaks its contract and reports a negative length.
sqlite3_column_bytes(c, fault) == IF fault THEN -1 ELSE Len(TextOf(c))

sqlite3_column_type(c) == c.ty

(***************************************************************************)
(* Decoders: impl FromSql                                                  *)
(***************************************************************************)
Decoded(val, calls) == [status |-> "returned", val |-> val, calls |-> calls]
Aborted(calls) == [status |-> "panicked", val |-> NoVal, calls |-> calls]

PtrBit(p) == IF p.null THEN 0 ELSE 1

column_c_int(R, col) ==
  LET v == sqlite3_column_int(R[col])
  IN Decoded(HV("c_int", 0, 0, v, <<>>), <<CallRec("sqlite3_column_int", col, 0, "", v)>>)

column_i64(R, col) ==
  LET v == sqlite3_column_int64(R[col])
  IN Decoded(HV("i64", 0, 0, v, <<>>), <<CallRec("sqlite3_column_int64", col, 0, "", v)>>)

column_c_double(R, col) ==
  LET v == sqlite3_column_double(R[col])
  IN Decoded(HV("c_double", 0, 0, v, <<>>), <<CallRec("sqlite3_column_double", col, 0, "", v)>>)

\* Fault: as_str() unwrapped, so bytes that are not UTF-8 fail the task.
column_String_Unwrap(R, col) ==
  LET c_text == sqlite3_column_text(R[col])
      calls == <<CallRec("sqlite3_column_text", col, 0, "", PtrBit(c_text))>>
  IN IF c_text.null THEN Decoded(HV("String", 0, 0, 0, <<>>), calls)
     ELSE LET bytes == Take(c_text.mem, Strlen(c_text.mem))
          IN IF IsUtf8(bytes) THEN Decoded(HV("String", 0, 0, 0, bytes), calls)
             ELSE Aborted(calls)

\* CString::new(c_text, false).as_str(): the bytes before the first NUL, if
\* they are UTF-8.
column_String(R, col) ==
  LET c_text == sqlite3_column_text(R[col])
      calls == <<CallRec("sqlite3_column_text", col, 0, "", PtrBit(c_text))>>
  IN IF c_text.null THEN Decoded(HV("String", 0, 0, 0, <<>>), calls)
     ELSE LET bytes == Take(c_text.mem, Strlen(c_text.mem))
          IN IF IsUtf8(bytes) THEN Decoded(HV("String", 0, 0, 0, bytes), calls)
             ELSE Decoded(HV("String", 0, 0, 0, <<>>), calls)

\* vec::raw::from_buf(ptr, elts): elts bytes copied out of ptr.
from_buf(ptr, elts) == Take(ptr.mem, elts)

\* Fault: no assertion on the length.
column_Vec_NoAssert(R, col, fault) ==
  LET c_blob == sqlite3_column_blob(R[col])
      len == sqlite3_column_bytes(R[col], fault)
      calls == <<CallRec("sqlite3_column_blob", col, 0, "", PtrBit(c_blob)),
                 CallRec("sqlite3_column_bytes", col, 0, "", len)>>
  IN Decoded(HV("Vec", 0, 0, 0, from_buf(c_blob, len)), calls)

column_Vec(R, col, fault) ==
  LET c_blob == sqlite3_column_blob(R[col])
      len == sqlite3_column_bytes(R[col], fault)
      calls == <<CallRec("sqlite3_column_blob", col, 0, "", PtrBit(c_blob)),
                 CallRec("sqlite3_column_bytes", col, 0, "", len)>>
  IN IF ~(len >= 0) THEN Aborted(calls)
     ELSE Decoded(HV("Vec", 0, 0, 0, from_buf(c_blob, len)), calls)

DecodeTypes == {"c_int", "i64", "c_double", "String", "Vec"}

column_base(ty, R, col, fault) ==
  CASE ty = "c_int" -> column_c_int(R, col)
    [] ty = "i64" -> column_i64(R, col)
    [] ty = "c_double" -> column_c_double(R, col)
    [] ty = "String" -> column_String(R, col)
    [] OTHER -> column_Vec(R, col, fault)

RECURSIVE column_Option(_, _, _, _, _)
\* Fault: a value of no bytes is taken for NULL.
column_Option_EmptyAsNone(ty, depth, R, col, fault) ==
  LET t == sqlite3_column_type(R[col])
      probe == <<CallRec("sqlite3_column_type", col, 0, "", t)>>
  IN IF t = SQLITE_NULL \/ sqlite3_column_bytes(R[col], FALSE) = 0
     THEN Decoded(HV(ty, depth, 0, 0, <<>>), probe)
     ELSE LET inner == IF depth = 1 THEN column_base(ty, R, col, fault)
                       ELSE column_Option(ty, depth - 1, R, col, fault)
          IN IF inner.status = "panicked" THEN Aborted(probe \o inner.calls)
             ELSE Decoded(HV(ty, depth, inner.val.some + 1, inner.val.n, inner.val.s),
                          probe \o inner.calls)

\* Fault: the typed accessor runs before the probe.
column_Option_AccessorFirst(ty, depth, R, col, fault) ==
  LET inner == IF depth = 1 THEN column_base(ty, R, col, fault)
               ELSE column_Option(ty, depth - 1, R, col, fault)
      t == sqlite3_column_type(R[col])
      calls == inner.calls \o <<CallRec("sqlite3_column_type", col, 0, "", t)>>
  IN IF inner.status = "panicked" THEN Aborted(calls)
     ELSE IF t = SQLITE_NULL THEN Decoded(HV(ty, depth, 0, 0, <<>>), calls)
     ELSE Decoded(HV(ty, depth, inner.val.some + 1, inner.val.n, inner.val.s), calls)

\* Option<T> of nesting depth `depth` over the base type ty.
column_Option(ty, depth, R, col, fault) ==
  LET t == sqlite3_column_type(R[col])
      probe == <<CallRec("sqlite3_column_type", col, 0, "", t)>>
  IN IF t = SQLITE_NULL THEN Decoded(HV(ty, depth, 0, 0, <<>>), probe)
     ELSE LET inner == IF depth = 1 THEN column_base(ty, R, col, fault)
                       ELSE column_Option(ty, depth - 1, R, col, fault)
          IN IF inner.status = "panicked" THEN Aborted(probe \o inner.calls)
             ELSE Decoded(HV(ty, depth, inner.val.some + 1, inner.val.n, inner.val.s),
                          probe \o inner.calls)

column_result(ty, depth, R, col, fault) ==
  IF depth > 0 THEN column_Option(ty, depth, R, col, fault) ELSE column_base(ty, R, col, fault)

(***************************************************************************)
(* One prepared statement, its caller, and the calls made on it            *)
(***************************************************************************)
Cols == 0..(NCols - 1)

Idle(op) == [op |-> op, ty |-> "none", depth |-> 0, col |-> 0, status |-> "returned",
             rc |-> 0, val |-> NoVal, calls |-> <<>>]

Init ==
  /\ phase = "bind"
  /\ params = [i \in Slots |-> NullCell]
  /\ row = [j \in Cols |-> NullCell]
  /\ bound = [i \in Slots |-> NoVal]
  /\ srcBuf = [i \in Slots |-> "none"]
  /\ last = Idle("none")

\* What became of the host memory whose address the bind handed over: the
\* C string of with_c_str is dropped when bind_parameter returns, a slice
\* stays the caller's.
BufferAfter(r, old) ==
  IF r.status = "panicked" \/ r.rc = SQLITE_RANGE THEN old
  ELSE IF r.rc # SQLITE_OK THEN "none"
  ELSE IF r.calls[1].f = "sqlite3_bind_text" THEN "gone"
  ELSE IF r.calls[1].f = "sqlite3_bind_blob" THEN "live"
  ELSE "none"

\* value.bind_parameter(stmt, i), called before the statement is stepped, for
\* the value drawn as t.  A failed task unwinds: nothing more happens on
\* this statement.
DoBind(i, t, oom) ==
  /\ phase = "bind"
  /\ LET v == ToHV(t)
         r == bind_parameter(v, params, i, oom)
     IN /\ phase' = IF r.status = "panicked" THEN "aborted" ELSE phase
        /\ params' = r.params
        /\ bound' = IF i \notin Slots \/ r.status = "panicked" \/ r.rc = SQLITE_RANGE THEN bound
                    ELSE [bound EXCEPT ![i] = IF r.rc = SQLITE_OK THEN v ELSE NoVal]
        /\ srcBuf' = IF i \in Slots THEN [srcBuf EXCEPT ![i] = BufferAfter(r, @)] ELSE srcBuf
        /\ last' = [op |-> "bind", ty |-> v.ty, depth |-> v.depth, col |-> i,
                    status |-> r.status, rc |-> r.rc, val |-> v, calls |-> r.calls]
  /\ UNCHANGED row

BindCInt(i, n) == DoBind(i, TV("c_int", 0, 0, n, <<>>), FALSE)
BindI64(i, n) == DoBind(i, TV("i64", 0, 0, n, <<>>), FALSE)
BindDouble(i, n) == DoBind(i, TV("c_double", 0, 0, n, <<>>), FALSE)
BindStr(i, s, oom) == DoBind(i, TV("str", 0, 0, 0, s), oom)
BindString(i, s, oom) == DoBind(i, TV("String", 0, 0, 0, s), oom)
BindSlice(i, s, oom) == DoBind(i, TV("slice", 0, 0, 0, s), oom)
BindVec(i, s, oom) == DoBind(i, TV("Vec", 0, 0, 0, s), oom)
BindOption(i, t, oom) == t[2] > 0 /\ DoBind(i, t, oom)
BindNull(i) == DoBind(i, TV("Null", 0, 0, 0, <<>>), FALSE)

\* T::column_result(stmt, j), called on the current row.
DoColumn(ty, depth, j, fault) ==
  /\ phase = "row"
  /\ LET r == column_result(ty, depth, row, j, fault)
     IN /\ phase' = IF r.status = "panicked" THEN "aborted" ELSE phase
        /\ last' = [op |-> "column", ty |-> ty, depth |-> depth, col |-> j,
                    status |-> r.status, rc |-> 0, val |-> r.val, calls |-> r.calls]
  /\ UNCHANGED <<params, row, bound, srcBuf>>

ColumnCInt(j) == DoColumn("c_int", 0, j, FALSE)
ColumnI64(j) == DoColumn("i64", 0, j, FALSE)
ColumnDouble(j) == DoColumn("c_double", 0, j, FALSE)
ColumnString(j) == DoColumn("String", 0, j, FALSE)
ColumnVec(j, fault) == DoColumn("Vec", 0, j, fault)
ColumnOption(ty, depth, j, fault) == depth > 0 /\ DoColumn(ty, depth, j, fault)

\* The caller frees or overwrites the buffer it bound to slot i.
DropBuffer(i) ==
  /\ phase # "aborted"
  /\ srcBuf[i] = "live"
  /\ srcBuf' = [srcBuf EXCEPT ![i] = "gone"]
  /\ UNCHANGED <<phase, params, row, bound, last>>

\* What the engine reads from a slot when the statement runs: its own copy,
\* or, through a kept pointer into memory that is gone, any bytes.
Fetch(i) ==
  IF params[i].alias /\ srcBuf[i] = "gone"
  THEN {Cell(params[i].ty, 0, g, FALSE) : g \in Blobs}
  ELSE {Cell(params[i].ty, params[i].n, params[i].s, FALSE)}

RECURSIVE Rows(_)
Rows(k) == IF k = 0 THEN {<<>>} ELSE {Append(r, c) : r \in Rows(k - 1), c \in Fetch(k)}

\* The pipeline stores the bound values and steps to the row holding them:
\* column j is parameter j + 1.
Step ==
  /\ phase = "bind"
  /\ phase' = "row"
  /\ \E r \in Rows(NCols) : row' = [j \in Cols |-> r[j + 1]]
  /\ last' = Idle("step")
  /\ UNCHANGED <<params, bound, srcBuf>>

\* sqlite3_reset: no current row, bindings kept.
Reset ==
  /\ phase = "row"
  /\ phase' = "bind"
  /\ row' = [j \in Cols |-> NullCell]
  /\ last' = Idle("reset")
  /\ UNCHANGED <<params, bound, srcBuf>>

Of(V, ty) == {v \in V : v[2] = 0 /\ v[1] = ty}

\* S: parameter indexes, V: host values, O: whether the engine's copy of a
\* buffer may fail, C: columns decoded.
NextOver(S, V, O, C) ==
  \/ \E i \in S, v \in Of(V, "c_int") : BindCInt(i, v[4])
  \/ \E i \in S, v \in Of(V, "i64") : BindI64(i, v[4])
  \/ \E i \in S, v \in Of(V, "c_double") : BindDouble(i, v[4])
  \/ \E i \in S, v \in Of(V, "str"), oom \in O : BindStr(i, v[5], oom)
  \/ \E i \in S, v \in Of(V, "String"), oom \in O : BindString(i, v[5], oom)
  \/ \E i \in S, v \in Of(V, "slice"), oom \in O : BindSlice(i, v[5], oom)
  \/ \E i \in S, v \in Of(V, "Vec"), oom \in O : BindVec(i, v[5], oom)
  \/ \E i \in S, v \in V, oom \in O : BindOption(i, v, oom)
  \/ \E i \in S : BindNull(i)
  \/ \E j \in C : ColumnCInt(j)
  \/ \E j \in C : ColumnI64(j)
  \/ \E j \in C : ColumnDouble(j)
  \/ \E j \in C : ColumnString(j)
  \/ \E j \in C, fault \in BOOLEAN : ColumnVec(j, fault)
  \/ \E ty \in DecodeTypes, d \in 1..MaxNest, j \in C :
       \E fault \in (IF ty = "Vec" THEN BOOLEAN ELSE {FALSE}) : ColumnOption(ty, d, j, fault)
  \/ \E i \in Slots : DropBuffer(i)
  \/ Step
  \/ Reset

\* Every host value, bound to the first parameter, the engine's copies
\* succeeding, and its column decoded; the other parameter stays unbound, as
\* in the tests' INSERTs.
Next == NextOver({1}, HostValues, {FALSE}, {0})
Spec == Init /\ [][Next]_vars

\* A few host values, bound to any parameter or to an index out of range,
\* the engine's copies failing or not.
NextFrame == NextOver(0..NCols, FrameValues, BOOLEAN, Cols)
SpecFrame == Init /\ [][NextFrame]_vars

(***************************************************************************)
(* Properties                                                              *)
(***************************************************************************)
\* The decode type a bindable type reads back as.
Fam(ty) == IF ty \in {"str", "String"} THEN "String"
           ELSE IF ty \in {"slice", "Vec"} THEN "Vec" ELSE ty

IsText(v) == v.ty \in {"str", "String"}
IsBlob(v) == v.ty \in {"slice", "Vec"}

\* The cell a completed bind of v leaves in its slot (section 4.1's table).
Stored(v) ==
  IF v.some < v.depth \/ v.ty = "Null" THEN NullCell
  ELSE IF v.ty \in {"c_int", "i64"} THEN Cell(SQLITE_INTEGER, v.n, <<>>, FALSE)
  ELSE IF v.ty = "c_double" THEN Cell(SQLITE_FLOAT, v.n, <<>>, FALSE)
  ELSE IF IsText(v) THEN Cell(SQLITE_TEXT, 0, v.s, FALSE)
  ELSE Cell(SQLITE_BLOB, 0, v.s, FALSE)

\* The v of Some(v).
Inner(v) == HV(v.ty, v.depth - 1, v.some - 1, v.n, v.s)

\* Binding v directly to parameter i of a statement with nothing bound,
\* stepping, and decoding column i - 1 as (ty, depth).
DirectBind(v, i) == bind_parameter(v, [k \in Slots |-> NullCell], i, FALSE)
DirectRow(v, i) == [j \in Cols |-> DirectBind(v, i).params[j + 1]]
DirectDecode(v, ty, depth, j) == column_result(ty, depth, DirectRow(v, j + 1), j, FALSE)

BindPrims == {"sqlite3_bind_int", "sqlite3_bind_int64", "sqlite3_bind_double",
              "sqlite3_bind_text", "sqlite3_bind_blob", "sqlite3_bind_null"}
TypedAccessors == {"sqlite3_column_int", "sqlite3_column_int64", "sqlite3_column_double",
                   "sqlite3_column_text", "sqlite3_column_blob", "sqlite3_column_bytes"}

\* The bind primitive each encoder is to invoke.
PrimOf(v) ==
  IF v.some < v.depth \/ v.ty = "Null" THEN "sqlite3_bind_null"
  ELSE IF v.ty = "c_int" THEN "sqlite3_bind_int"
  ELSE IF v.ty = "i64" THEN "sqlite3_bind_int64"
  ELSE IF v.ty = "c_double" THEN "sqlite3_bind_double"
  ELSE IF IsText(v) THEN "sqlite3_bind_text"
  ELSE "sqlite3_bind_blob"

\* C1: a byte sequence b bound with the &[u8] / Vec<u8> encoder and read back
\* from its column with the Vec<u8> decoder (the engine reporting a length
\* that is not negative) comes back equal to b, byte for byte and in length.
C1_BlobRoundTrip ==
  (/\ last.op = "column" /\ last.ty = "Vec" /\ last.depth = 0
   /\ IsBlob(bound[last.col + 1]) /\ bound[last.col + 1].depth = 0
   /\ last.calls[2].ret >= 0)
  => /\ last.status = "returned"
     /\ last.val.s = bound[last.col + 1].s
     /\ Len(last.val.s) = Len(bound[last.col + 1].s)

C1_Witness ==
  /\ last.op = "column" /\ last.ty = "Vec" /\ last.depth = 0 /\ last.status = "returned"
  /\ bound[1].ty = "Vec" /\ bound[1].depth = 0
  /\ Len(bound[1].s) = 1
  /\ last.col = 0 /\ last.val.s = bound[1].s

\* C2: every text string s bound with the &str / String encoder is stored,
\* and read back from its column with the String decoder comes back equal
\* to s.
C2_TextRoundTrip ==
  /\ (last.op = "bind" /\ IsText(last.val) /\ last.depth = 0 /\ last.col \in Slots)
       => /\ last.status = "returned"
          /\ (last.rc = SQLITE_OK => bound[last.col] = last.val)
  /\ (last.op = "column" /\ last.ty = "String" /\ last.depth = 0
        /\ IsText(bound[last.col + 1]) /\ bound[last.col + 1].depth = 0)
       => /\ last.status = "returned"
          /\ last.val.s = bound[last.col + 1].s

\* A decode of Option<..<T>> reading the column that Some(v), v of the matching
\* type, was bound to.
ReadsSome ==
  /\ last.op = "column" /\ last.depth >= 1 /\ last.status = "returned"
  /\ bound[last.col + 1].some >= 1
  /\ bound[last.col + 1].depth = last.depth
  /\ Fam(bound[last.col + 1].ty) = last.ty

\* Some(d) for the outcome d of the direct decode.
SomeOf(d) == HV(d.val.ty, d.val.depth + 1, d.val.some + 1, d.val.n, d.val.s)

\* C3 as stated: binding Some(v) and decoding as Option<T> yields Some(v'),
\* v' what binding v directly and decoding as T yields; never absent.
C3_PresentRoundTrip ==
  ReadsSome =>
    /\ last.val.some >= 1
    /\ last.val = SomeOf(DirectDecode(Inner(bound[last.col + 1]), last.ty,
                                      last.depth - 1, last.col))

\* C3 amended: binding Some(v) to an in-range slot ends as binding v directly
\* does (same abort, same status, same stored cell); decoding as Option<T>
\* yields Some(v'), v' the direct decode, when the stored cell is not SQL
\* NULL, and None when it is (v itself an absent optional).
C3_PresentRoundTripAmended ==
  /\ (last.op = "bind" /\ last.depth >= 1 /\ last.val.some >= 1 /\ last.col \in Slots)
       => LET d == DirectBind(Inner(last.val), last.col)
          IN /\ last.status = d.status
             /\ last.rc = d.rc
             /\ last.calls = d.calls
             /\ (d.status = "returned" => params[last.col] = d.params[last.col])
  /\ ReadsSome =>
       /\ row[last.col] = DirectRow(Inner(bound[last.col + 1]), last.col + 1)[last.col]
       /\ IF row[last.col].ty = SQLITE_NULL
            THEN last.val.some = 0 /\ bound[last.col + 1].some < bound[last.col + 1].depth
            ELSE last.val = SomeOf(DirectDecode(Inner(bound[last.col + 1]), last.ty,
                                                last.depth - 1, last.col))

\* Some("") read back as Some("").
C3_Witness ==
  /\ ReadsSome
  /\ last.depth = 1 /\ last.ty = "String"
  /\ bound[1] = HV("str", 1, 1, 0, <<>>)
  /\ last.val = HV("String", 1, 1, 0, <<>>)

\* C4: binding None issues the engine's bind-null for that slot and leaves
\* it NULL; decoding a column as Option<T>, for every T, first sees the type
\* probe report null exactly when that column's cell is NULL, whatever the
\* other columns hold, and yields None then and a present value otherwise;
\* a column bound None decodes to None.
C4_NullRoundTrip ==
  /\ (last.op = "bind" /\ last.depth >= 1 /\ last.val.some = 0)
       => /\ last.status = "returned"
          /\ Len(last.calls) = 1
          /\ last.calls[1].f = "sqlite3_bind_null" /\ last.calls[1].col = last.col
          /\ (last.col \in Slots => params[last.col] = NullCell)
  /\ (last.op = "column" /\ last.depth >= 1)
       => /\ (last.calls[1].ret = SQLITE_NULL) = (row[last.col].ty = SQLITE_NULL)
          /\ (row[last.col].ty = SQLITE_NULL
                => last.status = "returned" /\ last.val.some = 0)
          /\ (row[last.col].ty # SQLITE_NULL /\ last.status = "returned"
                => last.val.some >= 1)
          /\ (bound[last.col + 1].depth >= 1 /\ bound[last.col + 1].some = 0
                => row[last.col].ty = SQLITE_NULL)

\* Column 0 holds a value, column 1 was bound None and decodes to None.
C4_Witness ==
  /\ last.op = "column" /\ last.depth >= 1 /\ last.col = 1
  /\ bound[2].depth >= 1 /\ bound[2].some = 0
  /\ row[0].ty # SQLITE_NULL
  /\ last.val.some = 0

\* C5: every bind that hands a host buffer to the engine passes
\* SQLITE_TRANSIENT, no slot keeps a pointer into host memory, and the row
\* the statement produces holds the bytes that were bound, also when the
\* buffer was freed or overwritten before the step.
C5_CopyNow ==
  /\ \A k \in 1..Len(last.calls) :
       last.calls[k].f \in {"sqlite3_bind_text", "sqlite3_bind_blob"}
         => last.calls[k].destructor = "SQLITE_TRANSIENT"
  /\ \A i \in Slots : ~params[i].alias
  /\ \A i \in Slots :
       (bound[i].ty # "none" /\ bound[i].some = bound[i].depth) => params[i] = Stored(bound[i])
  /\ phase = "row" =>
       \A i \in Slots :
         (bound[i].some = bound[i].depth /\ (IsText(bound[i]) \/ IsBlob(bound[i])))
           => row[i - 1].s = bound[i].s

\* A bound slice dropped before the step, and the row holds its bytes.
C5_Witness ==
  /\ phase = "row"
  /\ srcBuf[1] = "gone"
  /\ IsBlob(bound[1]) /\ bound[1].some = bound[1].depth
  /\ Len(bound[1].s) >= 1
  /\ row[0].s = bound[1].s

\* C6: a bind_parameter call that returns made exactly one engine call, the
\* bind primitive of its type on its slot, and returned that call's status;
\* a call that aborts made no engine call.
C6_StatusPassThrough ==
  last.op = "bind" =>
    IF last.status = "panicked" THEN last.calls = <<>>
    ELSE /\ Len(last.calls) = 1
         /\ last.calls[1].f = PrimOf(last.val)
         /\ last.calls[1].col = last.col
         /\ last.rc = last.calls[1].ret
         /\ (last.col \notin Slots => last.rc = SQLITE_RANGE)
         /\ (last.rc = SQLITE_OK => params[last.col] = Stored(last.val))

\* An owned String whose engine copy failed: the failure code comes back.
C6_Witness ==
  /\ last.op = "bind" /\ last.val.ty = "String"
  /\ last.rc = SQLITE_NOMEM
  /\ last.calls[1].ret = SQLITE_NOMEM

\* C7: a decode of Option<T> calls the storage-type probe first; when it
\* reports null the probe is the only engine call and the result is None;
\* otherwise every typed accessor is called after the probe and the result
\* is present.  A stored integer 0 decodes as Some(0), NULL as None.
C7_ProbeFirst ==
  (last.op = "column" /\ last.depth >= 1) =>
    /\ last.calls[1].f = "sqlite3_column_type" /\ last.calls[1].col = last.col
    /\ last.calls[1].ret = row[last.col].ty
    /\ (last.calls[1].ret = SQLITE_NULL
          => Len(last.calls) = 1 /\ last.status = "returned" /\ last.val.some = 0)
    /\ (last.calls[1].ret # SQLITE_NULL
          => /\ \E k \in 2..Len(last.calls) : last.calls[k].f \in TypedAccessors
             /\ (last.status = "returned" => last.val.some >= 1))
    /\ \A k \in 1..Len(last.calls) :
         last.calls[k].f \in TypedAccessors
           => \E m \in 1..(k - 1) : last.calls[m].f = "sqlite3_column_type"
    /\ (row[last.col] = Cell(SQLITE_INTEGER, 0, <<>>, FALSE) /\ last.ty = "c_int"
          /\ last.depth = 1)
         => last.val = HV("c_int", 1, 1, 0, <<>>)

\* Integer 0 read as Option<c_int>: Some(0).
C7_Witness ==
  /\ last.op = "column" /\ last.ty = "c_int" /\ last.depth = 1
  /\ row[last.col] = Cell(SQLITE_INTEGER, 0, <<>>, FALSE)
  /\ last.val = HV("c_int", 1, 1, 0, <<>>)
  /\ Len(last.calls) = 2

\* C8: the Vec<u8> decoder aborts and returns no value when the engine
\* reports a negative length; for a length n >= 0 it returns exactly the n
\* bytes at the blob pointer (none for n = 0, where the pointer is null).
C8_BlobLength ==
  (last.op = "column" /\ last.ty = "Vec" /\ last.depth = 0) =>
    /\ Len(last.calls) = 2
    /\ last.calls[1].f = "sqlite3_column_blob" /\ last.calls[2].f = "sqlite3_column_bytes"
    /\ IF last.calls[2].ret < 0
         THEN last.status = "panicked" /\ last.val = NoVal /\ phase = "aborted"
         ELSE /\ last.status = "returned"
              /\ Len(last.val.s) = last.calls[2].ret
              /\ last.val.s = TextOf(row[last.col])
              /\ (last.calls[2].ret = 0 => last.calls[1].ret = 0)

C8_Witness ==
  /\ last.op = "column" /\ last.ty = "Vec" /\ last.depth = 0
  /\ last.calls[2].ret < 0
  /\ last.status = "panicked"
  /\ row[last.col].ty = SQLITE_BLOB

\* Bytes before the first NUL.
UpToNul(s) == Take(s, Strlen(s))

\* C9 as stated: a null text pointer decodes to the empty string; a non-null
\* pointer decodes to the column's text as given by the pointer and the
\* column's byte length, never to an empty-string substitute.
C9_LenientText ==
  (last.op = "column" /\ last.ty = "String" /\ last.depth = 0) =>
    /\ last.status = "returned"
    /\ IF last.calls[1].ret = 0 THEN last.val.s = <<>>
       ELSE last.val.s = Take(TextOf(row[last.col]), sqlite3_column_bytes(row[last.col], FALSE))

\* C9 amended: a null text pointer decodes to the empty string; a non-null
\* pointer decodes to the bytes before the first NUL when they are valid
\* UTF-8 and to the empty string when they are not; the column's byte
\* length is never asked for.
C9_LenientTextAmended ==
  (last.op = "column" /\ last.ty = "String" /\ last.depth = 0) =>
    /\ last.status = "returned"
    /\ Len(last.calls) = 1 /\ last.calls[1].f = "sqlite3_column_text"
    /\ IF last.calls[1].ret = 0 THEN last.val.s = <<>>
       ELSE IF IsUtf8(UpToNul(TextOf(row[last.col])))
         THEN last.val.s = UpToNul(TextOf(row[last.col]))
         ELSE last.val.s = <<>>

\* A NULL column read as String: the empty string.
C9_Witness ==
  /\ last.op = "column" /\ last.ty = "String" /\ last.depth = 0
  /\ row[last.col].ty = SQLITE_NULL
  /\ last.calls[1].ret = 0
  /\ last.status = "returned" /\ last.val.s = <<>>

\* C10: a bind on slot i changes no other slot and not the row; a decode
\* changes no slot and no column; two decodes of one column in a row, as the
\* same type, yield equal values; every slot holds what the last completed
\* bind addressed to it stored.
C10_BindFrame ==
  (last'.op = "bind" /\ last' # last) =>
    /\ \A k \in Slots \ {last'.col} : params'[k] = params[k]
    /\ row' = row

C10_ColumnFrame ==
  (last'.op = "column") =>
    /\ params' = params /\ row' = row
    /\ (/\ last.op = "column" /\ last.ty = last'.ty /\ last.depth = last'.depth
        /\ last.col = last'.col /\ last'.status = "returned")
         => last'.val = last.val

C10_LastBind ==
  \A i \in Slots : bound[i].ty # "none" => params[i] = Stored(bound[i])

C10_Frame == [][C10_BindFrame /\ C10_ColumnFrame]_vars /\ []C10_LastBind

\* Slot 2 bound while slot 1 holds a value.
C10_Witness ==
  /\ last.op = "bind" /\ last.col = 2 /\ last.rc = SQLITE_OK
  /\ params[1].ty # SQLITE_NULL
  /\ params[2].ty # SQLITE_NULL

====
